---- MODULE Spec2Model ----
(***************************************************************************)
(* The podman_secret resource of terraform-provider-podman:                *)
(* internal/provider/secret_resource.go.  One resource instance, its       *)
(* persisted Terraform state, and the secrets held by the podman service   *)
(* the handlers talk to through the bindings (secrets.Create, secrets.List,*)
(* secrets.Remove).                                                        *)
(***************************************************************************)
EXTENDS Integers, Sequences, FiniteSets, TLC

VARIABLES
    state,    \* the persisted state of the resource instance (SecretResourceModel)
    remote,   \* the secrets the podman service holds
    nextId,   \* number of ids the podman service has assigned so far
    last,     \* what the last handler call did: its request, remote calls, diagnostics, log
    origin    \* history: which handler seeded the current state ("none" without a state)

vars == <<state, remote, nextId, last, origin>>

\* Bound: how many secrets the podman service creates in one behaviour.
MaxCreates == 2

----------------------------------------------------------------------------
(* Attribute values: types.String and types.Map are null, unknown or known. *)

StrNull == [k |-> "null", v |-> ""]
StrUnknown == [k |-> "unknown", v |-> ""]
StrVal(s) == [k |-> "known", v |-> s]

\* The id attribute is a types.String too; ids are modelled as digit sequences
\* so that the service's partial-id match can be computed.
IdNull == [k |-> "null", v |-> <<>>]
IdUnknown == [k |-> "unknown", v |-> <<>>]
IdVal(s) == [k |-> "known", v |-> s]

MapNull == [k |-> "null", v |-> {}]
MapVal(m) == [k |-> "known", v |-> m]

IsNull(x) == x.k = "null"

\* basetypes.StringValue.ValueString: "" for null and unknown.
ValueString(x) == IF x.k = "known" THEN x.v ELSE ""

\* basetypes.StringValue.ValueStringPointer: nil for null, a pointer to the
\* value otherwise (a pointer to "" for unknown).
ValueStringPointer(x) ==
    IF IsNull(x) THEN [nil |-> TRUE, v |-> ""]
    ELSE [nil |-> FALSE, v |-> ValueString(x)]

\* A Go map[string]string: nil or a set of <<key, value>> pairs.
GoNilMap == [nil |-> TRUE, elems |-> {}]
GoMap(m) == [nil |-> FALSE, elems |-> m]

\* basetypes.MapValue.ElementsAs into a map[string]string: a null map gives
\* the nil map, a known map its elements; no diagnostic for string elements.
ElementsAs(m) == IF IsNull(m) THEN GoNilMap ELSE GoMap(m.v)

\* basetypes.NewMapValueFrom(ctx, types.StringType, m): a nil map gives the
\* null map, any other map the known map of its elements; no diagnostic.
NewMapValueFrom(g) == IF g.nil THEN MapNull ELSE MapVal(g.elems)

----------------------------------------------------------------------------
(* The values the configurations and the service range over.               *)

Names == {"foo"}
Secrets == {"bar"}
DriverNames == {"file", "pass"}
LabelMaps == {{<<"foo", "bar">>}}
OptMaps == {{<<"path", "/tmp">>}}

\* SecretResourceModel without a resource: the state before Create, after
\* RemoveResource and after a successful Delete.
NoState ==
    [present |-> FALSE, id |-> IdNull, name |-> StrNull, driver |-> StrNull,
     driver_opts |-> MapNull, labels |-> MapNull, secret |-> StrNull]

\* A configuration under the schema: name and secret are required, driver,
\* labels and driver_opts optional (null when unset), id computed.
Config(name, driver, driverOpts, labels, secret) ==
    [name |-> StrVal(name), driver |-> driver, driver_opts |-> driverOpts,
     labels |-> labels, secret |-> StrVal(secret)]

\* The configurations tried: only the required attributes; the example of the
\* repository (driver "file" and a label); another driver with an option; a
\* driver alone.
Configs ==
    {Config(n, StrNull, MapNull, MapNull, s) : n \in Names, s \in Secrets}
    \cup {Config(n, StrVal("file"), MapNull, MapVal(l), s) :
              n \in Names, l \in LabelMaps, s \in Secrets}
    \cup {Config(n, StrVal("pass"), MapVal(o), MapNull, s) :
              n \in Names, o \in OptMaps, s \in Secrets}
    \cup {Config(n, StrVal(d), MapNull, MapNull, s) :
              n \in Names, d \in DriverNames, s \in Secrets}

\* The driver of the plan: driver is Optional and Computed, so a driver the
\* configuration leaves unset is unknown in the plan of a create or update.
PlannedDriver(cfg) == IF IsNull(cfg.driver) THEN StrUnknown ELSE cfg.driver

\* req.Plan of Create: the configuration, with the computed attributes the
\* configuration does not set unknown (id has no prior state to take).
CreatePlan(cfg) ==
    [present |-> TRUE, id |-> IdUnknown, name |-> cfg.name,
     driver |-> PlannedDriver(cfg), driver_opts |-> cfg.driver_opts,
     labels |-> cfg.labels, secret |-> cfg.secret]

\* What the host proposes for an existing resource: the configuration, with
\* the prior state's value for a computed attribute the configuration leaves
\* unset.  Update is called only when this differs from the prior state.
ProposedState(cfg, prior) ==
    [present |-> TRUE, id |-> prior.id, name |-> cfg.name,
     driver |-> IF IsNull(cfg.driver) THEN prior.driver ELSE cfg.driver,
     driver_opts |-> cfg.driver_opts, labels |-> cfg.labels, secret |-> cfg.secret]

\* req.Plan of Update: as for Create, but id carries UseStateForUnknown and so
\* takes the prior state's value.
UpdatePlan(cfg, prior) == [CreatePlan(cfg) EXCEPT !.id = prior.id]

----------------------------------------------------------------------------
(* The podman service behind the bindings.                                 *)

\* The driver the service gives a secret created without one.
ServiceDefaultDriver == "file"

\* The id the service assigns to its n-th secret.
IdOf(n) == <<1, n>>

IsPrefix(p, s) == Len(p) <= Len(s) /\ SubSeq(s, 1, Len(p)) = p

\* The secrets a (possibly partial) id designates.
Matching(rem, id) == {s \in rem : IsPrefix(id, s.id)}

\* secrets.Create: on success the service stores the payload under a fresh
\* id, with its default driver when none (or an empty one) is given
\* (defaulted records that the service chose the driver).
SecretsCreate(rem, nid, payload, opts, fail) ==
    IF fail
    THEN [ok |-> FALSE, id |-> <<>>, remote |-> rem, nextId |-> nid,
          msg |-> "service unavailable"]
    ELSE LET id == IdOf(nid + 1)
             rec == [id |-> id,
                     name |-> opts.Name.v,
                     driver |-> IF opts.Driver.nil \/ opts.Driver.v = ""
                                THEN ServiceDefaultDriver ELSE opts.Driver.v,
                     opts |-> opts.DriverOpts.elems,
                     labels |-> opts.Labels.elems,
                     data |-> payload,
                     defaulted |-> opts.Driver.nil \/ opts.Driver.v = ""]
         IN [ok |-> TRUE, id |-> id, remote |-> rem \cup {rec},
             nextId |-> nid + 1, msg |-> ""]

\* One entry of the list report; show tells whether the service returns the
\* secret's content in SecretData or leaves it empty.
Report(s, show) ==
    [ID |-> s.id,
     Spec |-> [Name |-> s.name,
               Driver |-> [Name |-> s.driver,
                           Options |-> IF s.opts = {} THEN GoNilMap ELSE GoMap(s.opts)],
               Labels |-> IF s.labels = {} THEN GoNilMap ELSE GoMap(s.labels)],
     SecretData |-> IF show THEN s.data ELSE ""]

RECURSIVE ReportsFrom(_, _, _, _)
ReportsFrom(set, n, top, show) ==
    IF n > top THEN <<>>
    ELSE (IF \E s \in set : s.id = IdOf(n)
          THEN <<Report(CHOOSE s \in set : s.id = IdOf(n), show)>>
          ELSE <<>>) \o ReportsFrom(set, n + 1, top, show)

\* secrets.List with the filter id=<id>: the reports of the secrets whose id
\* the filter matches, oldest first.
SecretsList(rem, nid, id, show, fail) ==
    IF fail
    THEN [ok |-> FALSE, reports |-> <<>>, msg |-> "service unavailable"]
    ELSE [ok |-> TRUE, reports |-> ReportsFrom(Matching(rem, id), 1, nid, show), msg |-> ""]

\* secrets.Remove: removes the one secret the id designates; fails when there
\* is none, when the id is ambiguous, or when the service cannot be reached.
SecretsRemove(rem, id, fail) ==
    IF fail
    THEN [ok |-> FALSE, remote |-> rem, msg |-> "service unavailable"]
    ELSE IF Matching(rem, id) = {}
    THEN [ok |-> FALSE, remote |-> rem, msg |-> "no such secret"]
    ELSE IF Cardinality(Matching(rem, id)) > 1
    THEN [ok |-> FALSE, remote |-> rem, msg |-> "more than one result secret"]
    ELSE [ok |-> TRUE, remote |-> rem \ Matching(rem, id), msg |-> ""]

----------------------------------------------------------------------------
(* The handlers of SecretResource.                                         *)

NoCfg ==
    [name |-> StrNull, driver |-> StrNull, driver_opts |-> MapNull,
     labels |-> MapNull, secret |-> StrNull]

\* A remote call as the bindings receive it.
CreateCall(payload, opts) == [fn |-> "create", id |-> <<>>, payload |-> payload, opts |-> opts]
ListCall(id) == [fn |-> "list", id |-> id, payload |-> "", opts |-> <<>>]
RemoveCall(id) == [fn |-> "remove", id |-> id, payload |-> "", opts |-> <<>>]

\* resp.Diagnostics.AddError(summary, detail).
ErrorDiag(summary, detail) == [severity |-> "error", summary |-> summary, detail |-> detail]

\* Create: the options handed to secrets.Create.
CreateOptions(data, driverOpts, labels) ==
    [Name |-> ValueStringPointer(data.name),
     Driver |-> ValueStringPointer(data.driver),
     DriverOpts |-> driverOpts,
     Labels |-> labels]

\* Mutant of CreateState: the id of the response is not stored.
CreateState_NoId(data, id) ==
    IF IsNull(data.driver) THEN [data EXCEPT !.driver = StrVal("file")] ELSE data

\* Mutant of CreateState: the driver is overwritten with "file" whatever the plan says.
CreateState_AlwaysFile(data, id) ==
    [data EXCEPT !.id = IdVal(id), !.driver = StrVal("file")]

\* Create: the model saved after a successful secrets.Create: the id of the
\* response, and "file" for a null driver.
CreateState(data, id) ==
    LET d == [data EXCEPT !.id = IdVal(id)]
    IN IF IsNull(d.driver) THEN [d EXCEPT !.driver = StrVal("file")] ELSE d

\* Mutant of CreateOnResponse: the model is saved before the error is looked at.
CreateOnResponse_SavesOnError(st, data, r) ==
    IF ~r.ok
    THEN [state |-> data, err |-> TRUE,
          diags |-> <<ErrorDiag("failed to add secret", r.msg)>>]
    ELSE [state |-> CreateState(data, r.id), err |-> FALSE, diags |-> <<>>]

\* Create: what follows the secrets.Create call: an error diagnostic and
\* return, or the state saved.
CreateOnResponse(st, data, r) ==
    IF ~r.ok
    THEN [state |-> st, err |-> TRUE,
          diags |-> <<ErrorDiag("failed to add secret", r.msg)>>]
    ELSE [state |-> CreateState(data, r.id), err |-> FALSE, diags |-> <<>>]

CreateHandler(st, rem, nid, plan, fail) ==
    LET data == plan
        driverOpts == ElementsAs(data.driver_opts)
        labels == ElementsAs(data.labels)
        opts == CreateOptions(data, driverOpts, labels)
        payload == ValueString(data.secret)
        r == SecretsCreate(rem, nid, payload, opts, fail)
        o == CreateOnResponse(st, data, r)
    IN [state |-> o.state, remote |-> r.remote, nextId |-> r.nextId,
        calls |-> <<CreateCall(payload, opts)>>, ok |-> r.ok, msg |-> r.msg,
        reports |-> <<>>, err |-> o.err, diags |-> o.diags, logs |-> <<>>]

\* Read: the model built from the first report of the list.
ReadState(data, rec) ==
    [data EXCEPT !.name = StrVal(rec.Spec.Name),
                 !.driver = StrVal(rec.Spec.Driver.Name),
                 !.driver_opts = NewMapValueFrom(rec.Spec.Driver.Options),
                 !.labels = NewMapValueFrom(rec.Spec.Labels),
                 !.secret = StrVal(rec.SecretData)]

\* Mutant of ReadOnList: an empty list is reported as an error and the state kept.
ReadOnList_AbsentIsError(data, reports) ==
    IF Len(reports) = 0
    THEN [state |-> data, err |-> TRUE,
          diags |-> <<ErrorDiag("failed to get secret", "secret not found")>>,
          logs |-> <<>>]
    ELSE [state |-> ReadState(data, reports[1]), err |-> FALSE, diags |-> <<>>,
          logs |-> <<[level |-> "error", format |-> "secretdata: %q",
                      arg |-> reports[1].SecretData]>>]

\* Read: what follows a successful secrets.List: the resource removed from
\* the state when nothing is listed, else the state built from the first
\* report, whose SecretData is logged at error level.
ReadOnList(data, reports) ==
    IF Len(reports) = 0
    THEN [state |-> NoState, err |-> FALSE, diags |-> <<>>, logs |-> <<>>]
    ELSE [state |-> ReadState(data, reports[1]), err |-> FALSE, diags |-> <<>>,
          logs |-> <<[level |-> "error", format |-> "secretdata: %q",
                      arg |-> reports[1].SecretData]>>]

ReadHandler(st, rem, nid, show, fail) ==
    LET data == st
        r == SecretsList(rem, nid, data.id.v, show, fail)
        o == IF ~r.ok
             THEN [state |-> st, err |-> TRUE,
                   diags |-> <<ErrorDiag("failed to get secret", r.msg)>>,
                   logs |-> <<>>]
             ELSE ReadOnList(data, r.reports)
    IN [state |-> o.state, remote |-> rem, nextId |-> nid,
        calls |-> <<ListCall(data.id.v)>>, ok |-> r.ok, msg |-> r.msg,
        reports |-> r.reports, err |-> o.err, diags |-> o.diags, logs |-> o.logs]

\* Mutant of UpdateHandler: the prior state, not the plan, is saved.
UpdateHandler_SavesPrior(st, rem, nid, plan) ==
    [state |-> st, remote |-> rem, nextId |-> nid, calls |-> <<>>, ok |-> TRUE,
     msg |-> "", reports |-> <<>>, err |-> FALSE, diags |-> <<>>, logs |-> <<>>]

\* Update: the plan saved as the state; no call to the bindings.
UpdateHandler(st, rem, nid, plan) ==
    [state |-> plan, remote |-> rem, nextId |-> nid, calls |-> <<>>, ok |-> TRUE,
     msg |-> "",
     reports |-> <<>>, err |-> FALSE, diags |-> <<>>, logs |-> <<>>]

\* Delete: what follows the secrets.Remove call: any error becomes an error
\* diagnostic.  The handler itself writes no state; the framework removes the
\* resource from the state when Delete returns without an error diagnostic.
DeleteOnResponse(st, r) ==
    IF ~r.ok
    THEN [state |-> st, err |-> TRUE,
          diags |-> <<ErrorDiag("failed to delete secret", r.msg)>>]
    ELSE [state |-> NoState, err |-> FALSE, diags |-> <<>>]

DeleteHandler(st, rem, nid, fail) ==
    LET data == st
        r == SecretsRemove(rem, data.id.v, fail)
        o == DeleteOnResponse(st, r)
    IN [state |-> o.state, remote |-> r.remote, nextId |-> nid,
        calls |-> <<RemoveCall(data.id.v)>>, ok |-> r.ok, msg |-> r.msg,
        reports |-> <<>>, err |-> o.err, diags |-> o.diags, logs |-> <<>>]

\* ImportState: resource.ImportStatePassthroughID sets the id attribute of an
\* otherwise null state to the import identifier.
ImportHandler(st, rem, nid, id) ==
    [state |-> [NoState EXCEPT !.present = TRUE, !.id = IdVal(id)],
     remote |-> rem, nextId |-> nid, calls |-> <<>>, ok |-> TRUE, msg |-> "",
     reports |-> <<>>, err |-> FALSE, diags |-> <<>>, logs |-> <<>>]

----------------------------------------------------------------------------
(* The state machine: the host calls one handler at a time.                *)

\* The identifiers a practitioner imports: a partial id, a full id, and an
\* id no secret of the service has.
ImportIds == {<<1>>, IdOf(1), <<2>>}

Record(op, cfg, prior, o) ==
    [op |-> op, cfg |-> cfg, prior |-> prior, calls |-> o.calls, ok |-> o.ok,
     msg |-> o.msg,
     reports |-> o.reports, err |-> o.err, diags |-> o.diags, logs |-> o.logs]

Apply(op, cfg, o) ==
    /\ state' = o.state
    /\ remote' = o.remote
    /\ nextId' = o.nextId
    /\ last' = Record(op, cfg, state, o)
    /\ origin' = IF ~o.state.present THEN "none"
                 ELSE IF op = "Create" /\ ~o.err THEN "create"
                 ELSE IF op = "ImportState" THEN "import"
                 ELSE origin

Init ==
    /\ state = NoState
    /\ remote = {}
    /\ nextId = 0
    /\ origin = "none"
    /\ last = [op |-> "none", cfg |-> NoCfg, prior |-> NoState, calls |-> <<>>,
               ok |-> TRUE, msg |-> "", reports |-> <<>>, err |-> FALSE, diags |-> <<>>,
               logs |-> <<>>]

Create ==
    /\ nextId < MaxCreates
    /\ \E cfg \in Configs, fail \in BOOLEAN :
         Apply("Create", cfg, CreateHandler(state, remote, nextId, CreatePlan(cfg), fail))

Read ==
    /\ state.present
    /\ \E show \in BOOLEAN, fail \in BOOLEAN :
         Apply("Read", NoCfg, ReadHandler(state, remote, nextId, show, fail))

Update ==
    /\ state.present
    /\ \E cfg \in Configs :
         /\ ProposedState(cfg, state) # state
         /\ Apply("Update", cfg,
                  UpdateHandler(state, remote, nextId, UpdatePlan(cfg, state)))

Delete ==
    /\ state.present
    /\ \E fail \in BOOLEAN :
         Apply("Delete", NoCfg, DeleteHandler(state, remote, nextId, fail))

ImportState ==
    /\ \E id \in ImportIds :
         Apply("ImportState", NoCfg, ImportHandler(state, remote, nextId, id))

Next == Create \/ Read \/ Update \/ Delete \/ ImportState

Spec == Init /\ [][Next]_vars

----------------------------------------------------------------------------
(* Properties.                                                             *)

\* The state carries an id and a secret of the service has exactly that id.
RemoteExists == \E s \in remote : s.id = state.id.v

\* The attributes of the configuration cfg, as the state st holds them; a
\* driver the configuration leaves unset constrains nothing here.
HoldsConfigured(st, cfg) ==
    /\ st.name = cfg.name
    /\ st.secret = cfg.secret
    /\ st.labels = cfg.labels
    /\ st.driver_opts = cfg.driver_opts
    /\ (~IsNull(cfg.driver) => st.driver = cfg.driver)

\* C1: a Delete whose remove call fails because no secret has the state's id
\* reports no error diagnostic.
C1_IdempotentDelete ==
    (last.op = "Delete" /\ ~last.ok /\ last.msg = "no such secret") => ~last.err

\* C2: a Read whose list call succeeds and returns no report removes the
\* resource from the state and reports no error diagnostic.
C2_ReadAbsentClearsState ==
    (last.op = "Read" /\ last.ok /\ Len(last.reports) = 0)
        => (~state.present /\ state = NoState /\ ~last.err /\ last.diags = <<>>)

C2_Witness ==
    /\ last.op = "Read" /\ last.ok /\ Len(last.reports) = 0
    /\ last.prior.present /\ ~state.present

\* C3: a Read that finds exactly one report, with empty SecretData, leaves
\* the non-empty secret value of the prior state in the state it writes.
C3_SecretPreserved ==
    (/\ last.op = "Read" /\ last.ok /\ Len(last.reports) = 1
     /\ last.reports[1].SecretData = ""
     /\ last.prior.secret.k = "known" /\ last.prior.secret.v # "")
        => state.secret = last.prior.secret

\* C4: for a configuration with driver unset, the state a successful Create
\* writes has driver "file", and so has the state a successful Read of that
\* secret writes.
C4_DriverDefaultRoundTrip ==
    /\ (last.op = "Create" /\ ~last.err /\ IsNull(last.cfg.driver))
           => state.driver = StrVal("file")
    /\ (/\ last.op = "Read" /\ ~last.err /\ state.present
        /\ \E s \in remote : s.id = state.id.v /\ s.defaulted)
           => state.driver = StrVal("file")

\* C5: the state carries an id if and only if a secret with that id exists.
C5_IdIffRemoteExists == state.present <=> RemoteExists

\* C5 as amended: a state that ImportState did not seed carries an id if and
\* only if a secret with that id exists.
C5_IdIffRemoteExistsUnlessImported ==
    origin # "import" => (state.present <=> RemoteExists)

C5_Witness ==
    /\ origin = "create" /\ state.present /\ RemoteExists
    /\ last.op = "Delete" /\ last.err

\* C6: an Update step makes no call to the bindings, leaves the secrets of
\* the service unchanged, writes the planned configuration into the state
\* and keeps the id of the prior state.
C6_UpdateStep ==
    last'.op = "Update" =>
        /\ last'.calls = <<>>
        /\ remote' = remote /\ nextId' = nextId
        /\ ~last'.err
        /\ state'.present
        /\ HoldsConfigured(state', last'.cfg)
        /\ (IsNull(last'.cfg.driver) => state'.driver = StrUnknown)
        /\ state'.id = state.id

C6_UpdateConfirmsPlan == [][C6_UpdateStep]_vars

C6_Witness ==
    /\ last.op = "Update" /\ state.id = last.prior.id /\ RemoteExists
    /\ state.labels # last.prior.labels

\* C7: a successful Create makes exactly one create call, which adds one
\* secret under a fresh id even when an identical secret exists, and writes
\* a state with that id and the configured values; a Delete makes exactly one
\* remove call, with the id of the state, and succeeds when that call does.
C7_CreateStep ==
    (last'.op = "Create" /\ ~last'.err) =>
        /\ Len(last'.calls) = 1 /\ last'.calls[1].fn = "create"
        /\ last'.calls[1].payload = last'.cfg.secret.v
        /\ \E s \in remote' :
             /\ s \notin remote
             /\ \A t \in remote : t.id # s.id
             /\ remote' = remote \cup {s}
             /\ state'.id = IdVal(s.id)
        /\ state'.present
        /\ HoldsConfigured(state', last'.cfg)

C7_DeleteStep ==
    last'.op = "Delete" =>
        /\ last'.calls = <<RemoveCall(state.id.v)>>
        /\ (last'.ok => (~last'.err /\ last'.diags = <<>>
                         /\ \A s \in remote' : s.id # state.id.v))

C7_CreateThenDelete == [][C7_CreateStep /\ C7_DeleteStep]_vars

\* After a second Create with an identical configuration, two secrets that
\* differ in nothing but their ids exist.
C7_Witness ==
    /\ last.op = "Create" /\ ~last.err
    /\ \E s, t \in remote :
         /\ s.id # t.id /\ s.id = state.id.v
         /\ [s EXCEPT !.id = t.id] = t

C9_NoSecretInOutput ==
    /\ \A i \in 1..Len(last.logs) : last.logs[i].arg \notin Secrets
    /\ \A i \in 1..Len(last.diags) :
         last.diags[i].detail \notin Secrets /\ last.diags[i].summary \notin Secrets

\* C10: a Read whose list returns more than one report reports an error and
\* writes no state.
C10_MultipleMatchesFatal ==
    (last.op = "Read" /\ last.ok /\ Len(last.reports) > 1)
        => (last.err /\ state = last.prior)

====
